---- MODULE Spec2Model ----
(***************************************************************************)
(* Podcast Zamkowy (app.py): the "Command API".  A command is a JSON       *)
(* object; it reaches apply_command either pasted as raw JSON text or as   *)
(* a signed link (?cmd=<base64url token>&sig=<hex HMAC>).  apply_command   *)
(* resolves the target page and calls the Notion collaborator             *)
(* (databases.query, pages.update, blocks.children.append).                *)
(*                                                                         *)
(* Text is modelled as a sequence of one-character strings, bytes as       *)
(* integers 0..255, JSON values as tagged records.                         *)
(***************************************************************************)
EXTENDS Integers, Sequences, FiniteSets, TLC

(* ------------------------------------------------------------------ *)
(* Text and bytes                                                      *)
(* ------------------------------------------------------------------ *)

\* The printable ASCII characters, code points 32..126, in order ("U+0060"
\* stands for the grave accent, which a TLA+ string cannot hold).
Ascii ==
  <<
    " ", "!", "\"", "#", "$", "%", "&", "'", "(", ")", "*", "+", ",", "-", ".", "/",
    "0", "1", "2", "3", "4", "5", "6", "7", "8", "9", ":", ";", "<", "=", ">", "?",
    "@", "A", "B", "C", "D", "E", "F", "G", "H", "I", "J", "K", "L", "M", "N", "O",
    "P", "Q", "R", "S", "T", "U", "V", "W", "X", "Y", "Z", "[", "\\", "]", "^", "_",
    "U+0060", "a", "b", "c", "d", "e", "f", "g", "h", "i", "j", "k", "l", "m", "n", "o",
    "p", "q", "r", "s", "t", "u", "v", "w", "x", "y", "z", "{", "|", "}", "~"
  >>

\* ord(c) of a printable ASCII character.
Ord == [c \in {Ascii[i] : i \in 1..Len(Ascii)} |->
          31 + (CHOOSE i \in 1..Len(Ascii) : Ascii[i] = c)]

\* chr(b) of a byte in 32..126.
Chr(b) == Ascii[b - 31]

IsPrintable(b) == b >= 32 /\ b <= 126

\* The one non-ASCII character the program's own text puts into a label: the
\* U+0142 of the placeholder title "(bez tytulu)".  json.dumps (ensure_ascii)
\* writes it as a backslash-u escape.
NonAscii == [c \in {"U+0142"} |-> <<"0", "1", "4", "2">>]

\* str.encode("utf-8") of ASCII text: one byte per character.
Utf8Encode(s) == [i \in 1..Len(s) |-> Ord[s[i]]]

Digits == <<"0", "1", "2", "3", "4", "5", "6", "7", "8", "9">>

IsDigit(c) == \E i \in 1..Len(Digits) : Digits[i] = c

HexDigits == Digits \o <<"a", "b", "c", "d", "e", "f">>

\* str(n) / repr of an int.
RECURSIVE NatStr(_)
NatStr(n) ==
  IF n < 10 THEN <<Digits[n + 1]>>
  ELSE NatStr(n \div 10) \o <<Digits[(n % 10) + 1]>>

IntStr(n) == IF n < 0 THEN <<"-">> \o NatStr(-n) ELSE NatStr(n)

\* s.startswith(prefix)
StartsWith(s, prefix) ==
  /\ Len(prefix) <= Len(s)
  /\ \A i \in 1..Len(prefix) : s[i] = prefix[i]

\* s.rstrip(c)
RECURSIVE RStrip(_, _)
RStrip(s, c) ==
  IF Len(s) > 0 /\ s[Len(s)] = c THEN RStrip(SubSeq(s, 1, Len(s) - 1), c) ELSE s

\* c * n
Repeat(c, n) == [i \in 1..n |-> c]

\* "".join(parts): the concatenation of a sequence of texts, by halves.
RECURSIVE Join(_)
Join(parts) ==
  IF Len(parts) = 0 THEN <<>>
  ELSE IF Len(parts) = 1 THEN parts[1]
  ELSE LET h == Len(parts) \div 2
       IN Join(SubSeq(parts, 1, h)) \o Join(SubSeq(parts, h + 1, Len(parts)))

\* s.find(c) + 1: the index of the first c in s, or 0.
Find(s, c) ==
  LET hits == {i \in 1..Len(s) : s[i] = c}
  IN IF hits = {} THEN 0 ELSE CHOOSE i \in hits : \A j \in hits : i <= j

(* ------------------------------------------------------------------ *)
(* JSON values (what json.loads returns, what json.dumps takes)        *)
(* ------------------------------------------------------------------ *)

\* One shape for every value: t the Python type, s the text of a str (or the
\* key of a dict member), n the number of an int or bool, k the children.
JV(t, s, n, k) == [t |-> t, s |-> s, n |-> n, k |-> k]

None == JV("null", <<>>, 0, <<>>)
JBool(b) == JV("bool", <<>>, IF b THEN 1 ELSE 0, <<>>)
JInt(n) == JV("int", <<>>, n, <<>>)
JStr(s) == JV("str", s, 0, <<>>)
JArr(xs) == JV("list", <<>>, 0, xs)
JMember(key, v) == JV("member", key, 0, <<v>>)
JObj(ms) == JV("dict", <<>>, 0, ms)

IsStr(v) == v.t = "str"
IsDict(v) == v.t = "dict"

\* bool(v): Python truthiness.
Truthy(v) ==
  CASE v.t = "null" -> FALSE
    [] v.t = "bool" -> v.n = 1
    [] v.t = "int" -> v.n # 0
    [] v.t = "str" -> Len(v.s) > 0
    [] OTHER -> Len(v.k) > 0

\* key in d
HasKey(d, key) == \E i \in 1..Len(d.k) : d.k[i].s = key

\* d.get(key, default)
Get(d, key, default) ==
  IF HasKey(d, key)
  THEN d.k[CHOOSE i \in 1..Len(d.k) : d.k[i].s = key].k[1]
  ELSE default

\* d[key] = v on the list of members of a dict under construction: a repeated
\* key keeps its first position and takes the last value.
PutMember(ms, key, v) ==
  IF \E i \in 1..Len(ms) : ms[i].s = key
  THEN [i \in 1..Len(ms) |-> IF ms[i].s = key THEN JMember(key, v) ELSE ms[i]]
  ELSE Append(ms, JMember(key, v))

(* ------------------------------------------------------------------ *)
(* json.dumps                                                          *)
(* ------------------------------------------------------------------ *)

\* The escape json.dumps writes for one character of a str (ensure_ascii).
EscapeChar(c) ==
  CASE c = "\"" -> <<"\\", "\"">>
    [] c = "\\" -> <<"\\", "\\">>
    [] c \in DOMAIN NonAscii -> <<"\\", "u">> \o NonAscii[c]
    [] OTHER -> <<c>>

EscapeStr(s) == Join([i \in 1..Len(s) |-> EscapeChar(s[i])])

\* json.dumps(v) with the default separators (", " and ": ").
RECURSIVE Dumps(_), DumpsItems(_), DumpsMembers(_)
Dumps(v) ==
  CASE v.t = "null" -> <<"n", "u", "l", "l">>
    [] v.t = "bool" -> IF v.n = 1 THEN <<"t", "r", "u", "e">>
                                  ELSE <<"f", "a", "l", "s", "e">>
    [] v.t = "int" -> IntStr(v.n)
    [] v.t = "str" -> <<"\"">> \o EscapeStr(v.s) \o <<"\"">>
    [] v.t = "list" -> <<"[">> \o DumpsItems(v.k) \o <<"]">>
    [] OTHER -> <<"{">> \o DumpsMembers(v.k) \o <<"}">>

DumpsItems(xs) ==
  IF Len(xs) = 0 THEN <<>>
  ELSE IF Len(xs) = 1 THEN Dumps(xs[1])
  ELSE Dumps(xs[1]) \o <<",", " ">> \o DumpsItems(Tail(xs))

DumpsMembers(ms) ==
  IF Len(ms) = 0 THEN <<>>
  ELSE LET one == <<"\"">> \o EscapeStr(ms[1].s) \o <<"\"", ":", " ">> \o Dumps(ms[1].k[1])
       IN IF Len(ms) = 1 THEN one
          ELSE one \o <<",", " ">> \o DumpsMembers(Tail(ms))

(* ------------------------------------------------------------------ *)
(* json.loads, over the bytes of the text                              *)
(* ------------------------------------------------------------------ *)

\* The result of a parsing step: ok, the value, the index after it.
Parsed(v, i) == [ok |-> TRUE, v |-> v, i |-> i]
ParseError == [ok |-> FALSE, v |-> None, i |-> 0]

RECURSIVE SkipWs(_, _)
SkipWs(b, i) == IF i <= Len(b) /\ b[i] \in {32, 9, 10, 13} THEN SkipWs(b, i + 1) ELSE i

\* Whether the bytes of b from index i on start with the text lit.
Literal(b, i, lit) ==
  /\ i + Len(lit) - 1 <= Len(b)
  /\ \A j \in 1..Len(lit) : b[i + j - 1] = Ord[lit[j]]

IsDigitByte(x) == x >= 48 /\ x <= 57

\* The character a backslash-u escape of four hex digits stands for, when the
\* model has it.
UnicodeEscape(b, i) ==
  LET hex == [j \in 1..4 |-> IF IsPrintable(b[i + j - 1]) THEN Chr(b[i + j - 1]) ELSE "?"]
      known == {c \in DOMAIN NonAscii : NonAscii[c] = hex}
  IN known

\* py_scanstring from the index after the opening quote; acc is the text so far.
\* A control character, a bad escape or a missing closing quote is an error.
\* (The escapes that stand for a control character, and the numbers with a
\* fraction or an exponent below, are values the model's texts do not hold:
\* the input sets keep clear of them.)
RECURSIVE ScanString(_, _, _)
ScanString(b, i, acc) ==
  IF i > Len(b) THEN ParseError
  ELSE IF b[i] = 34 THEN Parsed(JStr(acc), i + 1)
  ELSE IF b[i] = 92 THEN
    IF i + 1 > Len(b) THEN ParseError
    ELSE IF b[i + 1] = 34 \/ b[i + 1] = 92 \/ b[i + 1] = 47
         THEN ScanString(b, i + 2, Append(acc, Chr(b[i + 1])))
    ELSE IF b[i + 1] = 117 /\ i + 5 <= Len(b) /\ UnicodeEscape(b, i + 2) # {}
         THEN ScanString(b, i + 6, Append(acc, CHOOSE c \in UnicodeEscape(b, i + 2) : TRUE))
    ELSE ParseError
  ELSE IF IsPrintable(b[i]) THEN ScanString(b, i + 1, Append(acc, Chr(b[i])))
  ELSE ParseError

\* The digits of an integer from index i; acc is the number so far.
RECURSIVE ScanDigits(_, _, _)
ScanDigits(b, i, acc) ==
  IF i <= Len(b) /\ IsDigitByte(b[i])
  THEN ScanDigits(b, i + 1, 10 * acc + (b[i] - 48))
  ELSE [n |-> acc, i |-> i]

\* NUMBER_RE: -?(0|[1-9]\d*) with no fraction and no exponent.
ScanNumber(b, i) ==
  LET neg == b[i] = 45
      j == IF neg THEN i + 1 ELSE i
  IN IF j > Len(b) \/ ~IsDigitByte(b[j]) THEN ParseError
     ELSE LET d == IF b[j] = 48 THEN [n |-> 0, i |-> j + 1] ELSE ScanDigits(b, j, 0)
          IN IF d.i <= Len(b) /\ b[d.i] \in {46, 101, 69} THEN ParseError
             ELSE Parsed(JInt(IF neg THEN 0 - d.n ELSE d.n), d.i)

\* scan_once: the value that starts at index i.  JSONArray (ScanArray: at index
\* i a value is expected, acc holds the items so far) and JSONObject
\* (ScanObject: at index i a quoted key is expected, acc holds the members so
\* far) are written as chains of steps, each taking the result of the one
\* before it.
RECURSIVE ScanOnce(_, _), ScanArray(_, _, _), ScanArrayItem(_, _, _), ScanArrayNext(_, _, _),
          ScanObject(_, _, _), ScanObjectKey(_, _, _), ScanObjectColon(_, _, _, _),
          ScanObjectValue(_, _, _, _), ScanObjectNext(_, _, _)
ScanOnce(b, i) ==
  IF i > Len(b) THEN ParseError
  ELSE CASE b[i] = 34 -> ScanString(b, i + 1, <<>>)
         [] b[i] = 123 ->
              IF SkipWs(b, i + 1) <= Len(b) /\ b[SkipWs(b, i + 1)] = 125
              THEN Parsed(JObj(<<>>), SkipWs(b, i + 1) + 1)
              ELSE ScanObject(b, SkipWs(b, i + 1), <<>>)
         [] b[i] = 91 ->
              IF SkipWs(b, i + 1) <= Len(b) /\ b[SkipWs(b, i + 1)] = 93
              THEN Parsed(JArr(<<>>), SkipWs(b, i + 1) + 1)
              ELSE ScanArray(b, SkipWs(b, i + 1), <<>>)
         [] b[i] = 110 -> IF Literal(b, i, <<"n", "u", "l", "l">>)
                          THEN Parsed(None, i + 4) ELSE ParseError
         [] b[i] = 116 -> IF Literal(b, i, <<"t", "r", "u", "e">>)
                          THEN Parsed(JBool(TRUE), i + 4) ELSE ParseError
         [] b[i] = 102 -> IF Literal(b, i, <<"f", "a", "l", "s", "e">>)
                          THEN Parsed(JBool(FALSE), i + 5) ELSE ParseError
         [] b[i] = 45 \/ IsDigitByte(b[i]) -> ScanNumber(b, i)
         [] OTHER -> ParseError

ScanArray(b, i, acc) == ScanArrayItem(b, acc, ScanOnce(b, i))

\* r: the item just scanned.
ScanArrayItem(b, acc, r) ==
  IF ~r.ok THEN ParseError ELSE ScanArrayNext(b, Append(acc, r.v), SkipWs(b, r.i))

\* j: the index of what follows the item, "]" or ",".
ScanArrayNext(b, items, j) ==
  IF j > Len(b) THEN ParseError
  ELSE IF b[j] = 93 THEN Parsed(JArr(items), j + 1)
  ELSE IF b[j] = 44 THEN ScanArray(b, SkipWs(b, j + 1), items)
  ELSE ParseError

ScanObject(b, i, acc) ==
  IF i > Len(b) \/ b[i] # 34 THEN ParseError
  ELSE ScanObjectKey(b, acc, ScanString(b, i + 1, <<>>))

\* key: the key just scanned; then the colon is expected.
ScanObjectKey(b, acc, key) ==
  IF ~key.ok THEN ParseError ELSE ScanObjectColon(b, acc, key.v.s, SkipWs(b, key.i))

ScanObjectColon(b, acc, key, c) ==
  IF c > Len(b) \/ b[c] # 58 THEN ParseError
  ELSE ScanObjectValue(b, acc, key, ScanOnce(b, SkipWs(b, c + 1)))

\* r: the member's value just scanned.
ScanObjectValue(b, acc, key, r) ==
  IF ~r.ok THEN ParseError
  ELSE ScanObjectNext(b, PutMember(acc, key, r.v), SkipWs(b, r.i))

\* j: the index of what follows the member, "}" or ",".
ScanObjectNext(b, ms, j) ==
  IF j > Len(b) THEN ParseError
  ELSE IF b[j] = 125 THEN Parsed(JObj(ms), j + 1)
  ELSE IF b[j] = 44 THEN ScanObject(b, SkipWs(b, j + 1), ms)
  ELSE ParseError

\* bytes.decode("utf-8") of the model's texts: ASCII only; a byte from 128 on
\* is taken as a UnicodeDecodeError.
Utf8DecodeOk(b) == \A i \in 1..Len(b) : b[i] < 128

\* The end of json.loads: nothing but white space may follow the value r.
LoadsEnd(b, r) == IF r.ok /\ SkipWs(b, r.i) = Len(b) + 1 THEN r ELSE ParseError

\* json.loads of the text whose bytes are b: one value, white space around it,
\* nothing after it.  ok = FALSE is json.JSONDecodeError.
Loads(b) == LoadsEnd(b, ScanOnce(b, SkipWs(b, 1)))

(* ------------------------------------------------------------------ *)
(* base64 (URL-safe alphabet)                                          *)
(* ------------------------------------------------------------------ *)

\* The URL-safe alphabet: A-Z a-z 0-9 - _
UrlSafeAlphabet ==
  SubSeq(Ascii, 34, 59) \o SubSeq(Ascii, 66, 91) \o SubSeq(Ascii, 17, 26) \o <<"-", "_">>

\* base64.urlsafe_b64encode(b): three bytes give four characters; the last
\* group is padded with "=".
urlsafe_b64encode(b) ==
  LET n == Len(b)
      byte(g, k) == IF 3 * g + k <= n THEN b[3 * g + k] ELSE 0
      char(j) ==
        LET g == (j - 1) \div 4
            pos == (j - 1) % 4
        IN CASE pos = 0 -> UrlSafeAlphabet[(byte(g, 1) \div 4) + 1]
             [] pos = 1 -> UrlSafeAlphabet[((byte(g, 1) % 4) * 16 + (byte(g, 2) \div 16)) + 1]
             [] pos = 2 -> IF 3 * g + 2 > n THEN "="
                           ELSE UrlSafeAlphabet[((byte(g, 2) % 16) * 4 + (byte(g, 3) \div 64)) + 1]
             [] OTHER -> IF 3 * g + 3 > n THEN "="
                         ELSE UrlSafeAlphabet[(byte(g, 3) % 64) + 1]
  IN [j \in 1..(4 * ((n + 2) \div 3)) |-> char(j)]

\* The value of a character for the decoder: urlsafe_b64decode first turns
\* "-" into "+" and "_" into "/", then decodes the standard alphabet.
\* 64 is the pad, 65 a character outside the alphabet.
B64Value ==
  [c \in {Ascii[i] : i \in 1..Len(Ascii)} |->
     IF \E v \in 1..64 : UrlSafeAlphabet[v] = c
     THEN (CHOOSE v \in 1..64 : UrlSafeAlphabet[v] = c) - 1
     ELSE IF c = "+" THEN 62
     ELSE IF c = "/" THEN 63
     ELSE IF c = "=" THEN 64
     ELSE 65]

\* The smallest element of a non-empty set of integers, 0 for the empty set.
MinOrZero(S) == IF S = {} THEN 0 ELSE CHOOSE i \in S : \A j \in S : i <= j

\* The bytes of the data characters d (whole groups of four, then one byte
\* for two characters left over and two bytes for three).
A2bBytes(d) ==
  [k \in 1..(3 * (Len(d) \div 4)
             + (IF Len(d) % 4 = 2 THEN 1 ELSE IF Len(d) % 4 = 3 THEN 2 ELSE 0)) |->
     CASE (k - 1) % 3 = 0 ->
            B64Value[d[4 * ((k - 1) \div 3) + 1]] * 4
              + (B64Value[d[4 * ((k - 1) \div 3) + 2]] \div 16)
       [] (k - 1) % 3 = 1 ->
            (B64Value[d[4 * ((k - 1) \div 3) + 2]] % 16) * 16
              + (B64Value[d[4 * ((k - 1) \div 3) + 3]] \div 4)
       [] OTHER ->
            (B64Value[d[4 * ((k - 1) \div 3) + 3]] % 4) * 64
              + B64Value[d[4 * ((k - 1) \div 3) + 4]]]

\* d: the data characters read before the input ended; stop: the index of the
\* pad that ended it (0: the input ran out).
A2bResult(d, stop) == [ok |-> stop # 0 \/ Len(d) % 4 = 0, data |-> A2bBytes(d)]

A2bRead(f, stop) ==
  A2bResult(SelectSeq(IF stop = 0 THEN f ELSE SubSeq(f, 1, stop - 1),
                      LAMBDA c : B64Value[c] < 64),
            stop)

\* f: data and pads; P: the indexes of the pads in f.  quad_pos at f[i] is
\* the number of data characters before it modulo 4; the pads counted at f[i]
\* are the run of pads that ends there.
A2bPads(f, P) ==
  A2bRead(f,
          MinOrZero({i \in P :
                       /\ ((i - 1) - Cardinality({j \in P : j < i})) % 4 >= 2
                       /\ (((i - 1) - Cardinality({j \in P : j < i})) % 4)
                            + Cardinality({k \in 1..i : \A j \in (i - k + 1)..i : j \in P})
                          >= 4}))

A2bFiltered(f) == A2bPads(f, {i \in 1..Len(f) : B64Value[f[i]] = 64})

\* binascii.a2b_base64 (not strict).  Its loop skips the characters outside
\* the alphabet; a pad is counted when at least two characters of the current
\* group of four have been read (quad_pos >= 2), and once quad_pos plus the
\* pads counted since the last data character reach four the input ends there
\* ("goto done"); any other pad is skipped.  Input that ends inside a group is
\* binascii.Error.  Computed by position instead of by the loop.
a2b_base64(s) == A2bFiltered(SelectSeq(s, LAMBDA c : B64Value[c] <= 64))

\* base64.urlsafe_b64decode(s): ok = FALSE is binascii.Error.
urlsafe_b64decode(s) == a2b_base64(s)

(* ------------------------------------------------------------------ *)
(* Signing, the codec and the link                                     *)
(* ------------------------------------------------------------------ *)

\* COMMAND_SHARED_SECRET: the process-wide secret (its default value).
COMMAND_SHARED_SECRET ==
  <<"P", "L", "E", "A", "S", "E", "-", "C", "H", "A", "N", "G", "E", "-", "M", "E">>

\* APP_BASE_URL
APP_BASE_URL == <<>>

\* A keyed digest standing for HMAC-SHA256: a 15-bit mix of the key's bytes
\* and then the message's bytes.  Deterministic, and sensitive to the key and
\* to every byte of the message, which is all the program relies on.
\* [h, p]: the mix of the bytes b[lo..hi] into a start value 0, and 33 to the
\* power of their number, both modulo 2^15; computed by halves.
RECURSIVE MixRange(_, _, _)
MixRange(b, lo, hi) ==
  IF lo > hi THEN [h |-> 0, p |-> 1]
  ELSE IF lo = hi THEN [h |-> b[lo], p |-> 33]
  ELSE LET mid == (lo + hi) \div 2
           l == MixRange(b, lo, mid)
           r == MixRange(b, mid + 1, hi)
       IN [h |-> (l.h * r.p + r.h) % 32768, p |-> (l.p * r.p) % 32768]

\* h <- (h * 33 + byte) mod 2^15 over the bytes of b, starting from h.
Mix(h, b) ==
  LET r == MixRange(b, 1, Len(b)) IN (h * r.p + r.h) % 32768

\* The digest as lowercase hexadecimal.
HexDigest(h) ==
  <<HexDigits[(h \div 4096) + 1], HexDigits[((h \div 256) % 16) + 1],
    HexDigits[((h \div 16) % 16) + 1], HexDigits[(h % 16) + 1]>>

sign_payload(payload_b64) ==
  HexDigest(Mix(Mix(5381, Utf8Encode(COMMAND_SHARED_SECRET)), Utf8Encode(payload_b64)))

\* The result of a call: exc names the exception that escapes it ("" when it
\* returns), v is the value returned.
Return(v) == [exc |-> "", v |-> v]
Raise(e) == [exc |-> e, v |-> None]

\* json.loads(data.decode("utf-8")) of decode_cmd, given what json.loads gave.
DecodeLoaded(r) == IF r.ok THEN Return(r.v) ELSE Raise("JSONDecodeError")

\* The rest of decode_cmd's try block, given what urlsafe_b64decode gave.
DecodeData(data) ==
  IF ~data.ok THEN Raise("binascii.Error")
  ELSE IF ~Utf8DecodeOk(data.data) THEN Raise("UnicodeDecodeError")
  ELSE DecodeLoaded(Loads(data.data))

\* The try block without "pad": the token is decoded as it came.  The variant
\* the round trip below must tell from decode_cmd_try.
decode_cmd_unpadded(cmd_b64) == DecodeData(urlsafe_b64decode(cmd_b64))

\* The body of decode_cmd's try block: the padding is put back, the token
\* decoded, the bytes parsed.
decode_cmd_try(cmd_b64) ==
  DecodeData(urlsafe_b64decode(cmd_b64 \o Repeat("=", (0 - Len(cmd_b64)) % 4)))

\* "except Exception: return None" around r, the outcome of the try block.
CatchException(r) == IF r.exc # "" THEN Return(None) ELSE r

decode_cmd(cmd_b64) == CatchException(decode_cmd_try(cmd_b64))

\* urllib.parse.quote_plus of one character.
IsUnreserved(c) ==
  \/ \E i \in 1..62 : UrlSafeAlphabet[i] = c
  \/ c \in {"_", ".", "-", "~"}

UpperHex == Digits \o <<"A", "B", "C", "D", "E", "F">>

QuotePlusChar(c) ==
  IF IsUnreserved(c) THEN <<c>>
  ELSE IF c = " " THEN <<"+">>
  ELSE <<"%", UpperHex[(Ord[c] \div 16) + 1], UpperHex[(Ord[c] % 16) + 1]>>

QuotePlus(s) == Join([i \in 1..Len(s) |-> QuotePlusChar(s[i])])

\* The token of a command: JSON, URL-safe base64, padding stripped.
encode_cmd(cmd_dict) ==
  LET payload_json == Dumps(cmd_dict)
  IN RStrip(urlsafe_b64encode(Utf8Encode(payload_json)), "=")

\* A link builder that signs the JSON text instead of the token: the variant
\* the end-to-end property below must tell from make_command_link.
make_command_link_json_signed(cmd_dict) ==
  APP_BASE_URL \o <<"?">>
    \o <<"c", "m", "d", "=">> \o QuotePlus(encode_cmd(cmd_dict))
    \o <<"&">> \o <<"s", "i", "g", "=">> \o QuotePlus(sign_payload(Dumps(cmd_dict)))

\* make_command_link: the URL with the token and its signature as the query
\* parameters cmd and sig.
make_command_link(cmd_dict) ==
  LET payload_b64 == encode_cmd(cmd_dict)
      sig == sign_payload(payload_b64)
  IN APP_BASE_URL \o <<"?">>
       \o <<"c", "m", "d", "=">> \o QuotePlus(payload_b64)
       \o <<"&">> \o <<"s", "i", "g", "=">> \o QuotePlus(sig)

HexVal(c) == (CHOOSE i \in 1..16 : UpperHex[i] = c \/ HexDigits[i] = c) - 1

IsHexChar(c) == \E i \in 1..16 : UpperHex[i] = c \/ HexDigits[i] = c

\* Percent-decoding of a query value ("+" is a space): a "%" followed by two
\* hex digits stands for the character of that code.
Unquote(s) ==
  LET escape(i) == /\ i >= 1 /\ i + 2 <= Len(s) /\ s[i] = "%"
                   /\ IsHexChar(s[i + 1]) /\ IsHexChar(s[i + 2])
                   /\ IsPrintable(16 * HexVal(s[i + 1]) + HexVal(s[i + 2]))
      piece(i) ==
        IF escape(i) THEN <<Chr(16 * HexVal(s[i + 1]) + HexVal(s[i + 2]))>>
        ELSE IF escape(i - 1) \/ escape(i - 2) THEN <<>>
        ELSE IF s[i] = "+" THEN <<" ">>
        ELSE <<s[i]>>
  IN Join([i \in 1..Len(s) |-> piece(i)])

\* The value of the query parameter name in a query string, as the list
\* st.experimental_get_query_params gives: <<>> when the URL does not name it.
RECURSIVE QueryValue(_, _)
QueryValue(query, name) ==
  IF Len(query) = 0 THEN <<>>
  ELSE LET amp == Find(query, "&")
           field == IF amp = 0 THEN query ELSE SubSeq(query, 1, amp - 1)
           rest == IF amp = 0 THEN <<>> ELSE SubSeq(query, amp + 1, Len(query))
           eq == Find(field, "=")
       IN IF eq > 0 /\ SubSeq(field, 1, eq - 1) = name
          THEN <<Unquote(SubSeq(field, eq + 1, Len(field)))>>
          ELSE QueryValue(rest, name)

\* The query parameters of a URL: what the page loaded from it reads.
QueryParams(url) ==
  LET q == Find(url, "?")
      query == IF q = 0 THEN <<>> ELSE SubSeq(url, q + 1, Len(url))
  IN [cmd |-> QueryValue(query, <<"c", "m", "d">>),
      sig |-> QueryValue(query, <<"s", "i", "g">>)]

(* ------------------------------------------------------------------ *)
(* Property names, the workspace and its pages                         *)
(* ------------------------------------------------------------------ *)

PROP_TITLE == "Episode Title"
PROP_STATUS == "Status"
PROP_RELEASE == "Release Date"
PROP_RECORDING == "Recording Date"
PROP_EP_NO == "Episode Number"
PROP_GUEST == "Guest"
PROP_TOPIC == "Temat"

\* The keys of a command and of its props, as JSON text.
K_op == <<"o", "p">>
K_page == <<"p", "a", "g", "e">>
K_page_id == <<"p", "a", "g", "e", "_", "i", "d">>
K_props == <<"p", "r", "o", "p", "s">>
K_items == <<"i", "t", "e", "m", "s">>
K_Status == <<"S", "t", "a", "t", "u", "s">>
K_Release == <<"R", "e", "l", "e", "a", "s", "e", " ", "D", "a", "t", "e">>
K_Recording == <<"R", "e", "c", "o", "r", "d", "i", "n", "g", " ", "D", "a", "t", "e">>
K_Topic == <<"T", "o", "p", "i", "c">>
K_Guest == <<"G", "u", "e", "s", "t">>
OP_update_properties ==
  <<"u", "p", "d", "a", "t", "e", "_", "p", "r", "o", "p", "e", "r", "t", "i", "e", "s">>
OP_add_checklist == <<"a", "d", "d", "_", "c", "h", "e", "c", "k", "l", "i", "s", "t">>

\* "(bez tytulu)", the title page_title gives a page that has none.
NO_TITLE == <<"(", "b", "e", "z", " ", "t", "y", "t", "u", "U+0142", "u", ")">>

\* The heading add_todos writes.
CHECKLIST_HEADING ==
  <<"C", "h", "e", "c", "k", "l", "i", "s", "t", " ",
    "p", "r", "o", "d", "u", "k", "c", "y", "j", "n", "y">>

\* A page of the workspace.  number is <<>> (no number) or <<n>>; status,
\* release, recording are <<>> (empty) or <<text>>; topic is the list of the
\* chosen options; guest is the rich text's content; children are the blocks.
Page(id, number, title) ==
  [id |-> id, number |-> number, title |-> title, status |-> <<>>, release |-> <<>>,
   recording |-> <<>>, topic |-> <<>>, guest |-> <<>>, children |-> <<>>]

page_number(p) == p.number

page_title(p) == IF p.title # <<>> THEN p.title ELSE NO_TITLE

(* ------------------------------------------------------------------ *)
(* The collaborator: databases.query, pages.update, blocks.children    *)
(* ------------------------------------------------------------------ *)

\* The empty mapping (a Python {}).
EmptyMap == [x \in {} |-> 0]

\* One call to the collaborator, as the interaction's log keeps it.
Call(api, page_id, properties, children, cursor, sorted, failed) ==
  [api |-> api, page_id |-> page_id, properties |-> properties, children |-> children,
   cursor |-> cursor, sorted |-> sorted, failed |-> failed]

\* The pages in ascending order of their number, those without one last
\* (the order of a query sorted by "Episode Number"); stable.
SortedByNumber(store) ==
  LET key(i) == IF store[i].number = <<>> THEN <<1, 0, i>> ELSE <<0, store[i].number[1], i>>
      before(i, j) ==
        \/ key(i)[1] < key(j)[1]
        \/ key(i)[1] = key(j)[1] /\ key(i)[2] < key(j)[2]
        \/ key(i)[1] = key(j)[1] /\ key(i)[2] = key(j)[2] /\ i < j
      rank(i) == 1 + Cardinality({j \in 1..Len(store) : before(j, i)})
  IN [r \in 1..Len(store) |-> store[CHOOSE i \in 1..Len(store) : rank(i) = r]]

\* Whether the store has a page with this id (page_id is a JSON value).
PageExists(store, page_id) ==
  IsStr(page_id) /\ \E i \in 1..Len(store) : store[i].id = page_id.s

\* A property value of an update request is well formed for the schema when
\* its kind is the property's declared type and its values are texts.
ValidProperty(schema, name, val) ==
  /\ name \in DOMAIN schema
  /\ schema[name] = val.kind
  /\ \A i \in 1..Len(val.vals) : IsStr(val.vals[i])

\* The page after the properties of an update request are written to it.
WriteProperties(p, properties) ==
  LET has(name) == name \in DOMAIN properties
      texts(name) == [i \in 1..Len(properties[name].vals) |-> properties[name].vals[i].s]
  IN [p EXCEPT
        !.status = IF has(PROP_STATUS) THEN texts(PROP_STATUS) ELSE @,
        !.release = IF has(PROP_RELEASE) THEN texts(PROP_RELEASE) ELSE @,
        !.recording = IF has(PROP_RECORDING) THEN texts(PROP_RECORDING) ELSE @,
        !.topic = IF has(PROP_TOPIC) THEN texts(PROP_TOPIC) ELSE @,
        !.guest = IF has(PROP_GUEST) THEN Join(texts(PROP_GUEST)) ELSE @]

\* notion.pages.update: refused (APIResponseError) for an unknown page or an
\* ill-formed property; otherwise only the named properties are written.
PagesUpdateOk(schema, store, page_id, properties) ==
  /\ PageExists(store, page_id)
  /\ \A name \in DOMAIN properties : ValidProperty(schema, name, properties[name])

PagesUpdate(store, page_id, properties) ==
  [i \in 1..Len(store) |->
     IF store[i].id = page_id.s THEN WriteProperties(store[i], properties) ELSE store[i]]

\* notion.blocks.children.append: refused for an unknown page or a block
\* whose text is not a text; otherwise the blocks are added at the end.
AppendOk(store, page_id, children) ==
  /\ PageExists(store, page_id)
  /\ \A i \in 1..Len(children) : IsStr(children[i].text)

BlocksAppend(store, page_id, children) ==
  [i \in 1..Len(store) |->
     IF store[i].id = page_id.s
     THEN [store[i] EXCEPT !.children = @ \o children]
     ELSE store[i]]

(* ------------------------------------------------------------------ *)
(* Helpers of the command layer                                        *)
(* ------------------------------------------------------------------ *)

\* The number of pages one query returns before has_more (100 in Notion).
PageSize == 1

\* s.split(c): the pieces of s between the occurrences of c.
SplitOn(s, c) ==
  LET seps == {i \in 1..Len(s) : s[i] = c}
      nth(k) == IF k = 0 THEN 0
                ELSE IF k > Cardinality(seps) THEN Len(s) + 1
                ELSE CHOOSE i \in seps : Cardinality({j \in seps : j < i}) = k - 1
  IN [k \in 1..(Cardinality(seps) + 1) |-> SubSeq(s, nth(k - 1) + 1, nth(k) - 1)]

\* s.strip()
Strip(s) ==
  LET keep == {i \in 1..Len(s) : s[i] # " "}
  IN IF keep = {} THEN <<>>
     ELSE SubSeq(s, CHOOSE i \in keep : \A j \in keep : i <= j,
                    CHOOSE i \in keep : \A j \in keep : j <= i)

\* s.lstrip(c)
LStrip(s, c) ==
  LET keep == {i \in 1..Len(s) : s[i] # c}
  IN IF keep = {} THEN <<>>
     ELSE SubSeq(s, CHOOSE i \in keep : \A j \in keep : i <= j, Len(s))

\* The value of a run of decimal digits.
RECURSIVE DigitsValue(_)
DigitsValue(ds) ==
  IF Len(ds) = 0 THEN 0
  ELSE 10 * DigitsValue(SubSeq(ds, 1, Len(ds) - 1)) + (CHOOSE i \in 1..Len(Digits) : Digits[i] = ds[Len(ds)]) - 1

\* int(s): an optional sign, then digits, single underscores allowed between
\* digits.  ok = FALSE is ValueError.
IntParse(s) ==
  LET signed == Len(s) > 0 /\ s[1] \in {"+", "-"}
      body == IF signed THEN Tail(s) ELSE s
      n == Len(body)
      wellFormed ==
        /\ n > 0
        /\ \A i \in 1..n : IsDigit(body[i]) \/ body[i] = "_"
        /\ IsDigit(body[1]) /\ IsDigit(body[n])
        /\ \A i \in 1..(n - 1) : ~(body[i] = "_" /\ body[i + 1] = "_")
      value == DigitsValue(SelectSeq(body, IsDigit))
  IN IF ~wellFormed THEN [ok |-> FALSE, n |-> 0]
     ELSE [ok |-> TRUE, n |-> IF signed /\ s[1] = "-" THEN 0 - value ELSE value]

DaysInMonth(y, m) ==
  IF m = 2 THEN (IF (y % 4 = 0 /\ y % 100 # 0) \/ y % 400 = 0 THEN 29 ELSE 28)
  ELSE IF m \in {4, 6, 9, 11} THEN 30 ELSE 31

\* date.fromisoformat(t) succeeds: t is YYYY-MM-DD and names a day.
IsIsoDate(t) ==
  /\ Len(t) = 10
  /\ t[5] = "-" /\ t[8] = "-"
  /\ \A i \in {1, 2, 3, 4, 6, 7, 9, 10} : IsDigit(t[i])
  /\ LET y == DigitsValue(SubSeq(t, 1, 4))
         m == DigitsValue(SubSeq(t, 6, 7))
         d == DigitsValue(SubSeq(t, 9, 10))
     IN y >= 1 /\ m >= 1 /\ m <= 12 /\ d >= 1 /\ d <= DaysInMonth(y, m)

\* parse_date_any(s): the date of the first ten characters, as its
\* isoformat(), or None.  Every exception is caught; the second attempt
\* (datetime.fromisoformat of the whole text) needs the same leading date, so
\* it adds nothing for the texts of the model.
parse_date_any(s) ==
  IF ~Truthy(s) THEN None
  ELSE IF ~IsStr(s) THEN None
  ELSE LET t == SubSeq(s.s, 1, IF Len(s.s) < 10 THEN Len(s.s) ELSE 10)
       IN IF IsIsoDate(t) THEN JStr(t) ELSE None

\* The loop of find_page_id_by_label: the id of the first page, in the order
\* of pages, that passes both tests, or None.
FirstMatch(pages, target_num, title_part) ==
  IF \A i \in 1..Len(pages) :
       ~ /\ (target_num = <<>> \/ page_number(pages[i]) = target_num)
         /\ (title_part = <<>> \/ StartsWith(page_title(pages[i]), title_part))
  THEN Return(None)
  ELSE Return(JStr(pages[CHOOSE i \in 1..Len(pages) :
                           /\ (target_num = <<>> \/ page_number(pages[i]) = target_num)
                           /\ (title_part = <<>>
                               \/ StartsWith(page_title(pages[i]), title_part))
                           /\ \A j \in 1..(i - 1) :
                                ~ /\ (target_num = <<>>
                                      \/ page_number(pages[j]) = target_num)
                                  /\ (title_part = <<>>
                                      \/ StartsWith(page_title(pages[j]), title_part))].id))

\* target_num of find_page_id_by_label: int(label.split()[0].lstrip("#")) when
\* the label starts with "#", with ValueError caught; <<>> stands for None.
\* first is the label up to its first space, parsed what int() made of it.
TargetNum(text, parsed) ==
  IF Len(text) > 0 /\ text[1] = "#" /\ parsed.ok THEN <<parsed.n>> ELSE <<>>

\* text: the label; sp: the index of its first space (0: none).
\* title_part = label.split(" ", 1)[1] if " " in label else "".
FindByText(pages, text, sp) ==
  FirstMatch(pages,
             TargetNum(text, IntParse(LStrip(IF sp = 0 THEN text ELSE SubSeq(text, 1, sp - 1),
                                             "#"))),
             IF sp = 0 THEN <<>> ELSE SubSeq(text, sp + 1, Len(text)))

\* find_page_id_by_label(pages, label).  label is whatever cmd.get("page")
\* gave; a value that is no str has no startswith (AttributeError).
find_page_id_by_label(pages, label) ==
  IF ~IsStr(label) THEN Raise("AttributeError")
  ELSE FindByText(pages, label.s, Find(label.s, " "))

(* ------------------------------------------------------------------ *)
(* The command layer: fetch, update_properties, add_todos, apply       *)
(* ------------------------------------------------------------------ *)

\* The world a handler runs in: the workspace's pages, the calls made to the
\* collaborator so far in this interaction, and failAt, the number of the
\* call that the collaborator fails for a reason of its own (0: none).
World(store, failAt) == [store |-> store, calls |-> <<>>, failAt |-> failAt]

\* One call: it fails when the collaborator refuses it or when it is call
\* number failAt; a failed call changes nothing and raises APIResponseError
\* (exc; "" when the call returned).
ApiCall(w, call, accepted, newStore) ==
  LET failed == (Len(w.calls) + 1 = w.failAt) \/ ~accepted
  IN [w |-> [w EXCEPT !.calls = Append(@, [call EXCEPT !.failed = failed]),
                      !.store = IF failed THEN @ ELSE newStore],
      exc |-> IF failed THEN "APIResponseError" ELSE ""]

\* A look-up that finds no type for any property, as one that reads the
\* schema at the wrong level would: the variant the people-reference property
\* below must tell from SchemaType.
SchemaTypeUnknown(schema, name) == ""

\* DB_PROPS.get(name, {}).get("type")
SchemaType(schema, name) == IF name \in DOMAIN schema THEN schema[name] ELSE ""

\* The while-loop of fetch_episodes_safe: one query per PageSize pages, from
\* the cursor on, until has_more is false.  r is the query just made.
RECURSIVE QueryAll(_, _, _), QueryNext(_, _, _)
QueryAll(w, sorted, cursor) ==
  QueryNext(ApiCall(w, Call("databases.query", None, EmptyMap, <<>>, cursor, sorted, FALSE),
                    TRUE, w.store),
            sorted, cursor)

QueryNext(r, sorted, cursor) ==
  IF r.exc # "" THEN r
  ELSE IF cursor + PageSize < Len(r.w.store) THEN QueryAll(r.w, sorted, cursor + PageSize)
  ELSE r

\* The end of fetch_episodes_safe, given its second, sorted, round of queries:
\* the world, the exception that escaped and the pages returned.
FetchSorted(second) ==
  [w |-> second.w, exc |-> second.exc,
   pages |-> IF second.exc # "" THEN <<>> ELSE SortedByNumber(second.w.store)]

\* The rest of fetch_episodes_safe, given its first, unsorted, round.
FetchFirst(first, schema, sort_prop) ==
  IF first.exc # "" THEN [w |-> first.w, exc |-> first.exc, pages |-> <<>>]
  ELSE IF sort_prop \in DOMAIN schema THEN FetchSorted(QueryAll(first.w, TRUE, 0))
  ELSE [w |-> first.w, exc |-> "", pages |-> first.w.store]

\* fetch_episodes_safe: every page unsorted, then, when the schema has the
\* sort property, every page again sorted by it.
fetch_episodes_safe(w, schema, sort_prop) == FetchFirst(QueryAll(w, FALSE, 0), schema, sort_prop)

fetch_episodes(w, schema) == fetch_episodes_safe(w, schema, PROP_EP_NO)

\* The tags of a multi-select topic, given the pieces of topic.split(","):
\* [{"name": t.strip()} for t in topic.split(",") if t.strip()].
TopicTags(pieces) ==
  LET names == SelectSeq([i \in 1..Len(pieces) |-> Strip(pieces[i])], LAMBDA t : t # <<>>)
  IN [i \in 1..Len(names) |-> JStr(names[i])]

\* A request that replaces the record instead of updating it in part: every
\* field is written, one that was not given as empty.  The variant the
\* partial-update property below must tell from UpdateRequest.
UpdateRequestAllFields(schema, status, release, recording, topic, guest) ==
  [exc |-> "",
   props |->
     (PROP_STATUS :> [kind |-> SchemaType(schema, PROP_STATUS),
                      vals |-> IF status # None THEN <<status>> ELSE <<>>])
     @@ (PROP_RELEASE :> [kind |-> "date",
                          vals |-> IF release # None THEN <<release>> ELSE <<>>])
     @@ (PROP_RECORDING :> [kind |-> "date",
                            vals |-> IF recording # None THEN <<recording>> ELSE <<>>])
     @@ (PROP_TOPIC :> [kind |-> SchemaType(schema, PROP_TOPIC),
                        vals |-> IF topic # None THEN <<topic>> ELSE <<>>])
     @@ (PROP_GUEST :> [kind |-> SchemaType(schema, PROP_GUEST),
                        vals |-> IF guest # None THEN <<guest>> ELSE <<>>]),
   warned |-> FALSE]

\* The properties update_properties puts into its request, and whether it
\* warns.  status, release, recording, topic, guest are None when not given.
UpdateRequest(schema, status, release, recording, topic, guest) ==
  [exc |-> IF Truthy(topic) /\ SchemaType(schema, PROP_TOPIC) = "multi_select" /\ ~IsStr(topic)
           THEN "AttributeError" ELSE "",
   props |->
     (IF status # None
      THEN PROP_STATUS :> [kind |-> IF SchemaType(schema, PROP_STATUS) = "status"
                                    THEN "status" ELSE "select",
                           vals |-> <<status>>]
      ELSE EmptyMap)
     @@ (IF release # None THEN PROP_RELEASE :> [kind |-> "date", vals |-> <<release>>]
         ELSE EmptyMap)
     @@ (IF recording # None THEN PROP_RECORDING :> [kind |-> "date", vals |-> <<recording>>]
         ELSE EmptyMap)
     @@ (IF ~Truthy(topic) THEN EmptyMap
         ELSE IF SchemaType(schema, PROP_TOPIC) = "multi_select"
         THEN PROP_TOPIC :> [kind |-> "multi_select",
                             vals |-> TopicTags(SplitOn(topic.s, ","))]
         ELSE PROP_TOPIC :> [kind |-> "select", vals |-> <<topic>>])
     @@ (IF guest # None /\ SchemaType(schema, PROP_GUEST) # "people"
         THEN PROP_GUEST :> [kind |-> "rich_text",
                             vals |-> IF Truthy(guest) THEN <<guest>> ELSE <<>>]
         ELSE EmptyMap),
   warned |-> guest # None /\ SchemaType(schema, PROP_GUEST) = "people"]

\* The end of update_properties, given its call r of pages.update: the world,
\* the exception that escaped and whether st.warning was called.
UpdateSent(r, warned) == [w |-> r.w, exc |-> r.exc, warned |-> warned]

\* "if props: notion.pages.update(page_id=page_id, properties=props)" for the
\* request req.
SendUpdate(w, schema, page_id, req) ==
  IF req.exc # "" THEN [w |-> w, exc |-> req.exc, warned |-> FALSE]
  ELSE IF DOMAIN req.props = {} THEN [w |-> w, exc |-> "", warned |-> req.warned]
  ELSE UpdateSent(ApiCall(w, Call("pages.update", page_id, req.props, <<>>, 0, FALSE, FALSE),
                          PagesUpdateOk(schema, w.store, page_id, req.props),
                          PagesUpdate(w.store, page_id, req.props)),
                  req.warned)

\* update_properties: the request is sent only when it names a property.
update_properties(w, schema, page_id, status, release, recording, topic, guest) ==
  SendUpdate(w, schema, page_id,
             UpdateRequest(schema, status, release, recording, topic, guest))

Block(type, text, checked) == [type |-> type, text |-> text, checked |-> checked]

\* "for t in items": the elements of a list, the characters of a str, the
\* keys of a dict; any other value is not iterable (TypeError).
Iterate(items) ==
  CASE items.t = "list" -> [ok |-> TRUE, xs |-> items.k]
    [] items.t = "str" -> [ok |-> TRUE, xs |-> [i \in 1..Len(items.s) |-> JStr(<<items.s[i]>>)]]
    [] items.t = "dict" -> [ok |-> TRUE, xs |-> [i \in 1..Len(items.k) |-> JStr(items.k[i].s)]]
    [] OTHER -> [ok |-> FALSE, xs |-> <<>>]

\* The to-do blocks in the reverse of the input order: the variant the
\* checklist property below must tell from TodoBlocks.
TodoBlocksReversed(xs) == [i \in 1..Len(xs) |-> Block("to_do", xs[Len(xs) + 1 - i], FALSE)]

\* children of add_todos: one unchecked to-do block per item.
TodoBlocks(xs) == [i \in 1..Len(xs) |-> Block("to_do", xs[i], FALSE)]

\* One call of notion.blocks.children.append: the world after it and the
\* exception it raised.
AppendCall(w, page_id, children) ==
  ApiCall(w, Call("blocks.children.append", page_id, EmptyMap, children, 0, FALSE, FALSE),
          AppendOk(w.store, page_id, children),
          BlocksAppend(w.store, page_id, children))

\* The rest of add_todos, given its first append h (the heading) and it, the
\* iteration over the items.
HeadingSent(h, page_id, it) ==
  IF h.exc # "" THEN h
  ELSE IF ~it.ok THEN [w |-> h.w, exc |-> "TypeError"]
  ELSE AppendCall(h.w, page_id, TodoBlocks(it.xs))

\* add_todos: nothing for no items; else one append of the heading, then one
\* append of a to-do block per item.
add_todos(w, page_id, items) ==
  IF ~Truthy(items) THEN [w |-> w, exc |-> ""]
  ELSE HeadingSent(AppendCall(w, page_id,
                              <<Block("heading_3", JStr(CHECKLIST_HEADING), FALSE)>>),
                   page_id, Iterate(items))

\* str(v) as an f-string formats it, and repr(v) inside a container.
RECURSIVE PyRepr(_), PyReprItems(_), PyReprMembers(_)
PyRepr(v) ==
  CASE v.t = "null" -> <<"N", "o", "n", "e">>
    [] v.t = "bool" -> IF v.n = 1 THEN <<"T", "r", "u", "e">> ELSE <<"F", "a", "l", "s", "e">>
    [] v.t = "int" -> IntStr(v.n)
    [] v.t = "str" -> <<"'">> \o v.s \o <<"'">>
    [] v.t = "list" -> <<"[">> \o PyReprItems(v.k) \o <<"]">>
    [] OTHER -> <<"{">> \o PyReprMembers(v.k) \o <<"}">>

PyReprItems(xs) ==
  IF Len(xs) = 0 THEN <<>>
  ELSE IF Len(xs) = 1 THEN PyRepr(xs[1])
  ELSE PyRepr(xs[1]) \o <<",", " ">> \o PyReprItems(Tail(xs))

PyReprMembers(ms) ==
  IF Len(ms) = 0 THEN <<>>
  ELSE LET one == <<"'">> \o ms[1].s \o <<"'", ":", " ">> \o PyRepr(ms[1].k[1])
       IN IF Len(ms) = 1 THEN one ELSE one \o <<",", " ">> \o PyReprMembers(Tail(ms))

\* The messages of apply_command: the fixed text by its name, and the text
\* formatted into it.
MSG_NOT_FOUND == [text |-> "Nie znaleziono strony odcinka (page/page_id).", arg |-> <<>>]
MSG_UPDATED == [text |-> "Wlasciwosci zaktualizowane.", arg |-> <<>>]
MSG_NO_ITEMS == [text |-> "Brak pozycji checklisty.", arg |-> <<>>]
MSG_ADDED == [text |-> "Checkliste dodano.", arg |-> <<>>]
MSG_UNKNOWN_OP(op) == [text |-> "Nieznana operacja: ", arg |-> IF op.t = "str" THEN op.s ELSE PyRepr(op)]
NO_MSG == [text |-> "", arg |-> <<>>]

\* What a call of apply_command leaves: the world after it, the exception
\* that escaped it (exc, "" when it returned), the pair it returned (ok,
\* msg), whether update_properties warned, and the page_id it resolved
\* (target; None when it got to none).
Applied(w, exc, ok, msg, warned, target) ==
  [w |-> w, exc |-> exc, ok |-> ok, msg |-> msg, warned |-> warned, target |-> target]

\* page_id = find_page_id_by_label(pages, page_label) if page_label else
\* cmd.get("page_id").
ResolveTarget(pages, cmd) ==
  IF Truthy(Get(cmd, K_page, None)) THEN find_page_id_by_label(pages, Get(cmd, K_page, None))
  ELSE Return(Get(cmd, K_page_id, None))

\* The end of a branch: what update_properties or add_todos left (r) for the
\* page page_id, and the message of its success.
Completed(r, warned, page_id, done) ==
  IF r.exc # "" THEN Applied(r.w, r.exc, FALSE, NO_MSG, warned, page_id)
  ELSE Applied(r.w, "", TRUE, done, warned, page_id)

\* The end of the update_properties branch, given what update_properties left.
UpdateApplied(u, page_id) == Completed(u, u.warned, page_id, MSG_UPDATED)

\* props = cmd.get("props", {}) and the call of update_properties with its
\* fields; a props that is no dict has no get.
UpdateWith(w, schema, page_id, props) ==
  IF ~IsDict(props) THEN Applied(w, "AttributeError", FALSE, NO_MSG, FALSE, page_id)
  ELSE UpdateApplied(update_properties(w, schema, page_id,
                                       Get(props, K_Status, None),
                                       parse_date_any(Get(props, K_Release, None)),
                                       parse_date_any(Get(props, K_Recording, None)),
                                       Get(props, K_Topic, None),
                                       IF HasKey(props, K_Guest)
                                       THEN Get(props, K_Guest, None) ELSE None),
                     page_id)

\* The branch without "if not items": add_todos is called whatever the items.
\* The variant the empty-checklist property below must tell from
\* ChecklistWith.
ChecklistWithAnyItems(w, page_id, items) ==
  Completed(add_todos(w, page_id, items), FALSE, page_id, MSG_ADDED)

\* items = cmd.get("items", []) and the call of add_todos.
ChecklistWith(w, page_id, items) ==
  IF ~Truthy(items) THEN Applied(w, "", FALSE, MSG_NO_ITEMS, FALSE, page_id)
  ELSE Completed(add_todos(w, page_id, items), FALSE, page_id, MSG_ADDED)

\* A branch once its target t is resolved in world w: "if not page_id: return
\* False, ...", then the branch's own work.
WithTarget(w, schema, cmd, op, t) ==
  IF t.exc # "" THEN Applied(w, t.exc, FALSE, NO_MSG, FALSE, None)
  ELSE IF ~Truthy(t.v) THEN Applied(w, "", FALSE, MSG_NOT_FOUND, FALSE, None)
  ELSE IF op = JStr(OP_update_properties)
  THEN UpdateWith(w, schema, t.v, Get(cmd, K_props, JObj(<<>>)))
  ELSE ChecklistWith(w, t.v, Get(cmd, K_items, JArr(<<>>)))

\* A branch once "pages = fetch_episodes()" gave f.
WithPages(f, schema, cmd, op) ==
  IF f.exc # "" THEN Applied(f.w, f.exc, FALSE, NO_MSG, FALSE, None)
  ELSE WithTarget(f.w, schema, cmd, op, ResolveTarget(f.pages, cmd))

\* apply_command without its final else: every op goes on to fetch the pages
\* and resolve a target.  The variant the unknown-operation property below
\* must tell from apply_command.
apply_command_any_op(w, schema, cmd) ==
  IF ~IsDict(cmd) THEN Applied(w, "AttributeError", FALSE, NO_MSG, FALSE, None)
  ELSE WithPages(fetch_episodes(w, schema), schema, cmd, Get(cmd, K_op, None))

\* apply_command(cmd): cmd is any JSON value; one that is no dict has no get
\* (AttributeError).  Both supported operations fetch the pages and resolve
\* the target before anything else; any other op is answered at once.
apply_command(w, schema, cmd) ==
  IF ~IsDict(cmd) THEN Applied(w, "AttributeError", FALSE, NO_MSG, FALSE, None)
  ELSE IF Get(cmd, K_op, None) \in {JStr(OP_update_properties), JStr(OP_add_checklist)}
  THEN WithPages(fetch_episodes(w, schema), schema, cmd, Get(cmd, K_op, None))
  ELSE Applied(w, "", FALSE, MSG_UNKNOWN_OP(Get(cmd, K_op, None)), FALSE, None)

(* ------------------------------------------------------------------ *)
(* Bounds and inputs                                                   *)
(* ------------------------------------------------------------------ *)

\* The longest workspace (in pages) an interaction starts from.
MaxPages == 2

\* failAt ranges over 0..MaxFailAt: which call the collaborator fails.
MaxFailAt == 6

\* The longest free text of the codec's commands.
MaxText == 2

T_Intro_Episode == <<"I", "n", "t", "r", "o", " ", "E", "p", "i", "s", "o", "d", "e">>
T_Opera == <<"O", "p", "e", "r", "a">>
T_Opera_II == <<"O", "p", "e", "r", "a", " ", "I", "I">>
L_3_Intro == <<"#", "3", " ", "I", "n", "t", "r", "o">>
L_8_Opera == <<"#", "8", " ", "O", "p", "e", "r", "a">>
L_Opera == <<"O", "p", "e", "r", "a">>
L_8 == <<"#", "8">>
L_9_Nope == <<"#", "9", " ", "N", "o", "p", "e">>
V_Nagrany == <<"N", "a", "g", "r", "a", "n", "y">>
V_Szkic == <<"S", "z", "k", "i", "c">>
V_Ann == <<"A", "n", "n">>
V_Jan == <<"J", "a", "n">>
V_Zamek == <<"Z", "a", "m", "e", "k">>
V_Topics == <<"H", "i", "s", "t", "o", "r", "i", "a", ",", " ", "Z", "a", "m", "e", "k">>
D_2025_01_01 == <<"2", "0", "2", "5", "-", "0", "1", "-", "0", "1">>
D_stamp ==
  <<"2", "0", "2", "5", "-", "0", "8", "-", "2", "9", "T", "1", "0", ":", "0", "0", ":", "0", "0", "Z">>
D_soon == <<"s", "o", "o", "n">>
OP_frobnicate == <<"f", "r", "o", "b", "n", "i", "c", "a", "t", "e">>
TXT_not_json == <<"{", "o", "p", ":", " ", "1", "}">>
TXT_trailing == <<"{", "\"", "o", "p", "\"", ":", " ", "\"", "x", "\"", "}", " ", "x">>

\* The schemas the workspace may declare (DB_PROPS: name -> type).
Schema(status, topic, guest) ==
  (PROP_TITLE :> "title") @@ (PROP_EP_NO :> "number") @@ (PROP_RELEASE :> "date")
    @@ (PROP_RECORDING :> "date") @@ (PROP_STATUS :> status) @@ (PROP_TOPIC :> topic)
    @@ (PROP_GUEST :> guest)

Schemas ==
  {Schema(s, t, g) : s \in {"status", "select"}, t \in {"multi_select", "select"},
                     g \in {"people", "rich_text"}}

\* The pages a workspace is made of: a numbered, titled episode with every
\* field set; two episodes that share a number and a title prefix; a page
\* with neither number nor title.
PagePool ==
  { [Page(<<"A">>, <<3>>, T_Intro_Episode) EXCEPT
       !.status = <<V_Szkic>>, !.release = <<D_2025_01_01>>, !.recording = <<D_2025_01_01>>,
       !.topic = <<V_Zamek>>, !.guest = V_Jan,
       !.children = <<Block("to_do", JStr(V_Jan), TRUE)>>],
    Page(<<"B">>, <<8>>, T_Opera),
    [Page(<<"C">>, <<8>>, T_Opera_II) EXCEPT !.status = <<V_Szkic>>],
    Page(<<"D">>, <<>>, <<>>) }

Stores ==
  {s \in UNION {[1..n -> PagePool] : n \in 0..MaxPages} :
     \A i, j \in 1..Len(s) : i # j => s[i].id # s[j].id}

\* Commands.
ByLabel(text) == <<JMember(K_page, JStr(text))>>
ById(text) == <<JMember(K_page_id, JStr(text))>>

UpdateCmd(target, props) ==
  JObj(<<JMember(K_op, JStr(OP_update_properties))>> \o target \o <<JMember(K_props, props)>>)

ChecklistCmd(target, items) ==
  JObj(<<JMember(K_op, JStr(OP_add_checklist))>> \o target \o items)

Items(xs) == <<JMember(K_items, xs)>>

StatusOnly == JObj(<<JMember(K_Status, JStr(V_Nagrany))>>)

\* The payloads of the update commands.
PropsPool ==
  { StatusOnly,
    JObj(<<>>),
    JObj(<<JMember(K_Status, JStr(V_Nagrany)), JMember(K_Guest, JStr(V_Ann))>>),
    JObj(<<JMember(K_Guest, JStr(V_Ann))>>),
    JObj(<<JMember(K_Guest, JStr(<<>>))>>),
    JObj(<<JMember(K_Guest, None), JMember(K_Status, None)>>),
    JObj(<<JMember(K_Topic, JStr(V_Topics))>>),
    JObj(<<JMember(K_Topic, JStr(<<>>)), JMember(K_Release, JStr(D_soon))>>),
    JObj(<<JMember(K_Topic, JInt(5))>>),
    JObj(<<JMember(K_Release, JStr(D_stamp)), JMember(K_Recording, JStr(D_2025_01_01)),
           JMember(K_Guest, JStr(V_Ann))>>),
    JStr(<<"x">>),
    None }

\* The targets of the commands: labels (with and without number and title),
\* ids (of a page of the pool and of no page), a label that is no text, none.
TargetPool ==
  { ByLabel(L_3_Intro), ByLabel(L_8_Opera), ByLabel(L_Opera), ByLabel(L_8),
    ByLabel(L_9_Nope), ById(<<"A">>), ById(<<"X">>), <<JMember(K_page, JInt(5))>>, <<>> }

ItemsPool ==
  { Items(JArr(<<JStr(<<"a">>), JStr(<<"b">>)>>)), Items(JArr(<<JStr(<<"a">>)>>)),
    Items(JArr(<<>>)), <<>>, Items(None), Items(JStr(<<"a", "b">>)), Items(JInt(5)),
    Items(JArr(<<JInt(1)>>)) }

UpdateCommands ==
  {UpdateCmd(t, p) : t \in {ByLabel(L_3_Intro), ById(<<"A">>)}, p \in PropsPool}
    \cup {UpdateCmd(t, StatusOnly) : t \in TargetPool}
    \cup {JObj(<<JMember(K_op, JStr(OP_update_properties))>> \o ById(<<"A">>))}

ChecklistCommands ==
  {ChecklistCmd(t, i) : t \in {ByLabel(L_3_Intro), ById(<<"A">>)}, i \in ItemsPool}
    \cup {ChecklistCmd(t, i) : t \in TargetPool,
                               i \in {Items(JArr(<<JStr(<<"a">>), JStr(<<"b">>)>>)),
                                      Items(JArr(<<>>))}}

OtherCommands ==
  { JObj(<<JMember(K_op, JStr(OP_frobnicate))>> \o ById(<<"A">>)),
    JObj(<<JMember(K_op, JStr(OP_frobnicate))>> \o ByLabel(L_3_Intro)
           \o <<JMember(K_props, StatusOnly)>> \o Items(JArr(<<JStr(<<"a">>)>>))),
    JObj(<<JMember(K_op, JInt(5))>> \o ById(<<"A">>)),
    JObj(<<>>), JArr(<<>>), JArr(<<JInt(1)>>), JInt(5), JStr(<<"x">>), None }

Commands == UpdateCommands \cup ChecklistCommands \cup OtherCommands

\* What is pasted into "Polecenie (JSON)": the JSON text of a command, or a
\* text that is no JSON.
PastedTexts == {Dumps(c) : c \in Commands} \cup {TXT_not_json, TXT_trailing, <<>>}

\* The commands links are built from.
LinkCommands ==
  { UpdateCmd(ByLabel(L_3_Intro), StatusOnly),
    UpdateCmd(ByLabel(L_8_Opera), StatusOnly),
    UpdateCmd(ById(<<"A">>), JObj(<<JMember(K_Guest, JStr(V_Ann))>>)),
    ChecklistCmd(ById(<<"A">>), Items(JArr(<<JStr(<<"a">>), JStr(<<"b">>)>>))),
    ChecklistCmd(ByLabel(L_3_Intro), Items(JArr(<<>>))),
    JObj(<<JMember(K_op, JStr(OP_frobnicate))>> \o ById(<<"A">>)),
    JObj(<<>>), JArr(<<JInt(1)>>), None }

\* A URL with the given query parameters, written by hand.
UrlOf(params) == APP_BASE_URL \o <<"?">> \o params
CmdParam(token) == <<"c", "m", "d", "=">> \o token
SigParam(sig) == <<"s", "i", "g", "=">> \o sig

\* Links that make_command_link did not build: a token under the signature of
\* another, a signature with one digit changed, a parameter missing or empty,
\* no query at all, and tokens that do not decode under their own signature.
ForgedUrls ==
  LET good == encode_cmd(UpdateCmd(ByLabel(L_3_Intro), StatusOnly))
      other == encode_cmd(ChecklistCmd(ById(<<"A">>), Items(JArr(<<JStr(<<"a">>)>>))))
      flipped == [sign_payload(good) EXCEPT ![1] = IF @ = "0" THEN "1" ELSE "0"]
      broken == SubSeq(good, 1, Len(good) - 1)
  IN { UrlOf(CmdParam(other) \o <<"&">> \o SigParam(sign_payload(good))),
       UrlOf(CmdParam(good) \o <<"&">> \o SigParam(flipped)),
       UrlOf(CmdParam(good)),
       UrlOf(SigParam(sign_payload(good))),
       UrlOf(CmdParam(<<>>) \o <<"&">> \o SigParam(sign_payload(<<>>))),
       UrlOf(CmdParam(good) \o <<"&">> \o SigParam(<<>>)),
       APP_BASE_URL,
       UrlOf(CmdParam(broken) \o <<"&">> \o SigParam(sign_payload(broken))),
       UrlOf(CmdParam(<<"e">>) \o <<"&">> \o SigParam(sign_payload(<<"e">>))),
       UrlOf(CmdParam(<<"_", "w">>) \o <<"&">> \o SigParam(sign_payload(<<"_", "w">>))),
       UrlOf(CmdParam(<<"%", "2", "1">>) \o <<"&">> \o SigParam(sign_payload(<<"!">>))) }

(* ------------------------------------------------------------------ *)
(* State                                                               *)
(* ------------------------------------------------------------------ *)

VARIABLES
  DB_PROPS,  \* the schema read at start-up: property name -> type
  pages,     \* the workspace's pages (the collaborator's state)
  pages0,    \* the pages when the interaction began
  pc,        \* "idle", "preview" (a verified link awaits its button), "done"
  tab,       \* the tab that handled the interaction: "none", "local", "link"
  qp,        \* the query parameters of the URL: cmd and sig, <<>> or <<text>>
  built,     \* the command the link was built from (None: not a built link)
  decoded,   \* what decode_cmd gave for the token
  cmd,       \* the command handed to apply_command (None before that)
  outcome,   \* of apply_command: "none" (not called), "returned", "raised"
  exc,       \* the exception that escaped the handler ("" when none did)
  ok,        \* the success flag apply_command returned
  msg,       \* the message apply_command returned
  shown,     \* what the page shows for the interaction
  warned,    \* whether st.warning was called
  calls,     \* the calls made to the collaborator in the interaction
  target     \* the page_id apply_command resolved (None: none)

vars == <<DB_PROPS, pages, pages0, pc, tab, qp, built, decoded, cmd, outcome, exc, ok, msg,
          shown, warned, calls, target>>

Init ==
  /\ DB_PROPS \in Schemas
  /\ pages \in Stores
  /\ pages0 = pages
  /\ pc = "idle"
  /\ tab = "none"
  /\ qp = [cmd |-> <<>>, sig |-> <<>>]
  /\ built = None
  /\ decoded = Return(None)
  /\ cmd = None
  /\ outcome = "none"
  /\ exc = ""
  /\ ok = FALSE
  /\ msg = NO_MSG
  /\ shown = ""
  /\ warned = FALSE
  /\ calls = <<>>
  /\ target = None

\* The state after apply_command(c) left a and the page showed its result:
\* (st.success if ok else st.error)(msg), or the exception.
Finish(c, a) ==
  /\ cmd' = c
  /\ pages' = a.w.store
  /\ calls' = a.w.calls
  /\ outcome' = IF a.exc = "" THEN "returned" ELSE "raised"
  /\ exc' = a.exc
  /\ ok' = a.ok
  /\ msg' = a.msg
  /\ warned' = a.warned
  /\ target' = a.target
  /\ shown' = IF a.exc # "" THEN "exception"
              ELSE IF a.ok THEN "success" ELSE "error"
  /\ pc' = "done"

\* ok, msg = apply_command(c), in a world whose collaborator fails call failAt.
Dispatch(c, failAt) == Finish(c, apply_command(World(pages, failAt), DB_PROPS, c))

\* tab_cmd_local after json.loads gave r: only json.JSONDecodeError is caught.
PasteParsed(r, failAt) ==
  IF r.ok THEN Dispatch(r.v, failAt)
  ELSE /\ shown' = "Niepoprawny JSON."
       /\ pc' = "done"
       /\ UNCHANGED <<pages, calls, cmd, outcome, exc, ok, msg, warned, target>>

\* tab_cmd_local, "Zastosuj polecenie": json.loads of the pasted text, then
\* apply_command.
PasteCommand(cmd_text, failAt) ==
  /\ pc = "idle"
  /\ tab' = "local"
  /\ PasteParsed(Loads(Utf8Encode(cmd_text)), failAt)
  /\ UNCHANGED <<DB_PROPS, pages0, qp, built, decoded>>

\* "cmd = decode_cmd(cmd_b64); if not cmd: st.error(...)", given d.  What the
\* page makes of the query parameters up to its button: stage is "info" (a
\* parameter missing or empty), "bad_sig", "undecodable", "preview" (the
\* command is shown with its button) or "raised" (decode_cmd let an exception
\* out).
ViewDecoded(d) ==
  [stage |-> IF d.exc # "" THEN "raised" ELSE IF ~Truthy(d.v) THEN "undecodable" ELSE "preview",
   decoded |-> d]

\* tab_cmd_link without the comparison of sig with the recomputed signature:
\* the variant the link guard below must tell from ViewParams.
ViewParamsUnsigned(cmd_b64, sig) ==
  IF cmd_b64 = <<>> \/ sig = <<>> THEN [stage |-> "info", decoded |-> Return(None)]
  ELSE ViewDecoded(decode_cmd(cmd_b64))

\* The checks of tab_cmd_link on cmd_b64 and sig.
ViewParams(cmd_b64, sig) ==
  IF cmd_b64 = <<>> \/ sig = <<>> THEN [stage |-> "info", decoded |-> Return(None)]
  ELSE IF sig # sign_payload(cmd_b64) THEN [stage |-> "bad_sig", decoded |-> Return(None)]
  ELSE ViewDecoded(decode_cmd(cmd_b64))

\* cmd_b64 = qp.get("cmd", [""])[0]; sig = qp.get("sig", [""])[0]
LinkView(q) ==
  ViewParams(IF q.cmd = <<>> THEN <<>> ELSE q.cmd[1], IF q.sig = <<>> THEN <<>> ELSE q.sig[1])

LinkShown(stage) ==
  CASE stage = "info" -> "Brak cmd/sig w URL."
    [] stage = "bad_sig" -> "Nieprawidlowy podpis polecenia (HMAC)."
    [] stage = "undecodable" -> "Nie mozna zdekodowac polecenia."
    [] stage = "preview" -> "Podglad polecenia"
    [] OTHER -> "exception"

\* The page is loaded with the query parameters q and shows view.
LoadPage(q, view) ==
  /\ qp' = q
  /\ decoded' = view.decoded
  /\ shown' = LinkShown(view.stage)
  /\ exc' = view.decoded.exc
  /\ pc' = IF view.stage = "preview" THEN "preview" ELSE "done"

\* The page is loaded from a URL: tab_cmd_link checks the parameters and, for
\* a verified command, shows it with the button "Wykonaj polecenie".
OpenLink(url, from) ==
  /\ pc = "idle"
  /\ tab' = "link"
  /\ built' = from
  /\ LoadPage(QueryParams(url), LinkView(QueryParams(url)))
  /\ UNCHANGED <<DB_PROPS, pages, pages0, cmd, outcome, ok, msg, warned, calls, target>>

\* The button's run, given the view of the re-run script.
ExecuteView(view, failAt) ==
  /\ view.stage = "preview"
  /\ decoded' = view.decoded
  /\ Dispatch(view.decoded.v, failAt)

\* "Wykonaj polecenie": the script runs again on the same URL, checks the
\* parameters again and applies the command.
ClickExecute(failAt) ==
  /\ pc = "preview"
  /\ ExecuteView(LinkView(qp), failAt)
  /\ UNCHANGED <<DB_PROPS, pages0, tab, qp, built>>

Next ==
  \/ \E cmd_text \in PastedTexts, failAt \in 0..MaxFailAt : PasteCommand(cmd_text, failAt)
  \/ \E c \in LinkCommands : OpenLink(make_command_link(c), c)
  \/ \E url \in ForgedUrls : OpenLink(url, None)
  \/ \E failAt \in 0..MaxFailAt : ClickExecute(failAt)

Spec == Init /\ [][Next]_vars

(* ------------------------------------------------------------------ *)
(* The codec on its own: make_command_link and decode_cmd              *)
(* ------------------------------------------------------------------ *)

\* The characters of the free texts of the codec's commands: a letter, the
\* two characters JSON escapes, a space and a character outside ASCII.
TextAlphabet == {"a", "\"", "\\", " ", "U+0142"}

Texts == UNION {[1..n -> TextAlphabet] : n \in 0..MaxText}

\* The commands the codec is run on: those of the handlers, and an update and
\* a checklist carrying each free text.
CodecCommands ==
  Commands
    \cup {UpdateCmd(ByLabel(t), JObj(<<JMember(K_Guest, JStr(t))>>)) : t \in Texts}
    \cup {ChecklistCmd(ById(<<"A">>), Items(JArr(<<JStr(t), JInt(0 - Len(t))>>))) : t \in Texts}

\* The characters of the tokens that arrive from elsewhere: characters of the
\* alphabet, the pad, and a character outside the alphabet.
TokenAlphabet == {"e", "3", "0", "M", "Q", "=", "!"}

Tokens == UNION {[1..n -> TokenAlphabet] : n \in 0..(MaxText + 1)}

\* The codec starts with nothing built and nothing decoded.
InitCodec ==
  /\ DB_PROPS = Schema("status", "multi_select", "people")
  /\ pages = <<>>
  /\ pages0 = pages
  /\ pc = "codec"
  /\ tab = "none"
  /\ qp = [cmd |-> <<>>, sig |-> <<>>]
  /\ built = None
  /\ decoded = Return(None)
  /\ cmd = None
  /\ outcome = "none"
  /\ exc = ""
  /\ ok = FALSE
  /\ msg = NO_MSG
  /\ shown = ""
  /\ warned = FALSE
  /\ calls = <<>>
  /\ target = None

\* make_command_link(c), and the parameters the link carries.
EncodeCommand(c) ==
  /\ pc = "codec"
  /\ tab' = "encode"
  /\ built' = c
  /\ qp' = QueryParams(make_command_link(c))
  /\ pc' = "token"
  /\ UNCHANGED <<DB_PROPS, pages, pages0, decoded, cmd, outcome, exc, ok, msg, shown, warned,
                 calls, target>>

\* A token that make_command_link did not build arrives as the cmd parameter.
TakeToken(token) ==
  /\ pc = "codec"
  /\ tab' = "token"
  /\ qp' = [cmd |-> <<token>>, sig |-> <<>>]
  /\ pc' = "token"
  /\ UNCHANGED <<DB_PROPS, pages, pages0, built, decoded, cmd, outcome, exc, ok, msg, shown,
                 warned, calls, target>>

\* decode_cmd(cmd_b64) of the parameter; exc is the exception it let out.
DecodeToken ==
  /\ pc = "token"
  /\ decoded' = decode_cmd(qp.cmd[1])
  /\ exc' = decoded'.exc
  /\ pc' = "decoded"
  /\ UNCHANGED <<DB_PROPS, pages, pages0, tab, qp, built, cmd, outcome, ok, msg, shown, warned,
                 calls, target>>

NextCodec ==
  \/ \E c \in CodecCommands : EncodeCommand(c)
  \/ \E token \in Tokens : TakeToken(token)
  \/ DecodeToken

SpecCodec == InitCodec /\ [][NextCodec]_vars

(* ------------------------------------------------------------------ *)
(* Properties                                                          *)
(* ------------------------------------------------------------------ *)

\* The calls of the interaction that write: updates and appends (indexes).
UpdateCalls == {i \in 1..Len(calls) : calls[i].api = "pages.update"}
AppendCalls == {i \in 1..Len(calls) : calls[i].api = "blocks.children.append"}

\* The link's parameters pass the three checks: both present and not empty,
\* sig the signature of cmd under the secret, cmd decoding to a value.
Verified(q) ==
  /\ q.cmd # <<>> /\ q.sig # <<>>
  /\ q.cmd[1] # <<>> /\ q.sig[1] # <<>>
  /\ q.sig[1] = sign_payload(q.cmd[1])
  /\ decode_cmd_try(q.cmd[1]).exc = ""
  /\ decode_cmd_try(q.cmd[1]).v # None

\* C1: on the link path apply_command is invoked, and an update or append
\* call issued, only if cmd and sig are both present, sig is the signature
\* recomputed over cmd and cmd decodes to a command; a link that fails one of
\* the checks is terminal: nothing is dispatched, no call is issued, the
\* workspace is as it was, and no button is offered.
C1_LinkGuard ==
  tab = "link" =>
    /\ (outcome # "none" \/ calls # <<>> \/ pc = "preview") => Verified(qp)
    /\ ~Verified(qp) =>
         /\ pc = "done" /\ outcome = "none" /\ cmd = None
         /\ UpdateCalls = {} /\ AppendCalls = {} /\ calls = <<>>
         /\ pages = pages0

\* A verified link was executed and its update call reached the collaborator.
C1_Witness ==
  /\ tab = "link" /\ outcome = "returned" /\ ok
  /\ Verified(qp)
  /\ UpdateCalls # {}

\* The command of the interaction is an update_properties command.
IsUpdateCmd == IsDict(cmd) /\ Get(cmd, K_op, None) = JStr(OP_update_properties)

\* Its payload: cmd.get("props", {}).
Payload == Get(cmd, K_props, JObj(<<>>))

\* The fields a command can write, the payload key of each and the value a
\* record holds for each.
Fields == {PROP_STATUS, PROP_RELEASE, PROP_RECORDING, PROP_TOPIC, PROP_GUEST}

KeyOf(f) ==
  CASE f = PROP_STATUS -> K_Status
    [] f = PROP_RELEASE -> K_Release
    [] f = PROP_RECORDING -> K_Recording
    [] f = PROP_TOPIC -> K_Topic
    [] OTHER -> K_Guest

FieldOf(p, f) ==
  CASE f = PROP_STATUS -> p.status
    [] f = PROP_RELEASE -> p.release
    [] f = PROP_RECORDING -> p.recording
    [] f = PROP_TOPIC -> p.topic
    [] OTHER -> p.guest

\* The fields present in the payload.
PresentFields == IF IsDict(Payload) THEN {f \in Fields : HasKey(Payload, KeyOf(f))} ELSE {}

\* v is a text that starts with a calendar date YYYY-MM-DD.
IsDateText(v) ==
  IsStr(v) /\ IsIsoDate(SubSeq(v.s, 1, IF Len(v.s) < 10 THEN Len(v.s) ELSE 10))

\* The fields present in the payload with a value that can be written: a
\* Status that is not null, a date that reads as one, a Topic that is not
\* empty, a Guest that is not null where Guest is no people reference.
WritableFields ==
  {f \in PresentFields :
     CASE f = PROP_STATUS -> Get(Payload, K_Status, None) # None
       [] f = PROP_RELEASE -> IsDateText(Get(Payload, K_Release, None))
       [] f = PROP_RECORDING -> IsDateText(Get(Payload, K_Recording, None))
       [] f = PROP_TOPIC -> Truthy(Get(Payload, K_Topic, None))
       [] OTHER -> Get(Payload, K_Guest, None) # None /\ DB_PROPS[PROP_GUEST] # "people"}

\* No field outside fs differs between the workspace before and after.
OnlyChanged(fs) ==
  /\ Len(pages) = Len(pages0)
  /\ \A k \in 1..Len(pages) : \A f \in Fields \ fs : FieldOf(pages[k], f) = FieldOf(pages0[k], f)

\* C2 as stated: every update request holds exactly the fields present in the
\* payload, fields absent from the payload keep their value, and an empty
\* payload leaves the record unchanged.
C2_ExactFields ==
  (IsUpdateCmd /\ outcome # "none") =>
    /\ \A i \in UpdateCalls : DOMAIN calls[i].properties = PresentFields
    /\ OnlyChanged(PresentFields)
    /\ (Payload = JObj(<<>>) => pages = pages0)

\* C2, amended: every update request holds only fields present in the
\* payload, namely exactly those present with a writable value (and no request
\* is sent when there is none); fields absent from the payload keep their
\* value on every record; with an empty payload no update call is made and
\* the workspace is unchanged.
C2_PartialUpdate ==
  (IsUpdateCmd /\ outcome # "none") =>
    /\ \A i \in UpdateCalls :
         /\ DOMAIN calls[i].properties = WritableFields
         /\ DOMAIN calls[i].properties \subseteq PresentFields
         /\ WritableFields # {}
    /\ OnlyChanged(PresentFields)
    /\ (Payload = JObj(<<>>) => UpdateCalls = {} /\ pages = pages0)

\* An update whose payload holds a field that is not written went through:
\* the request held the other fields and the record changed.
C2_Witness ==
  /\ IsUpdateCmd /\ ok
  /\ UpdateCalls # {}
  /\ WritableFields # PresentFields
  /\ pages # pages0

\* The update carries a Guest value and Guest is a people reference.
GuestToPeople ==
  /\ IsUpdateCmd /\ outcome # "none"
  /\ IsDict(Payload)
  /\ Get(Payload, K_Guest, None) # None
  /\ DB_PROPS[PROP_GUEST] = "people"

\* The same command without the Guest field, and what apply_command makes of
\* it in the same workspace with the same call failing.
WithoutGuest ==
  JObj(PutMember(cmd.k, K_props, JObj(SelectSeq(Payload.k, LAMBDA m : m.s # K_Guest))))

FailedCall == IF calls # <<>> /\ calls[Len(calls)].failed THEN Len(calls) ELSE 0

Twin == apply_command(World(pages0, FailedCall), DB_PROPS, WithoutGuest)

\* The records the command resolved to, after the interaction.
TargetPages == {k \in 1..Len(pages) : target # None /\ IsStr(target) /\ pages[k].id = target.s}

\* C3: where Guest is a people reference, an update carrying a Guest value
\* never writes Guest (no request holds it, no record's guest changes) and a
\* warning is reported once update_properties gets to the field; the skip is
\* not an error: the command ends as the same command without Guest does
\* (same calls, same workspace, same result), it succeeds whenever it returns
\* for a resolved target, and on success the other fields are written.
C3_PeopleGuestSkipped ==
  GuestToPeople =>
    /\ \A i \in UpdateCalls : PROP_GUEST \notin DOMAIN calls[i].properties
    /\ \A k \in 1..Len(pages) : pages[k].guest = pages0[k].guest
    /\ (target # None /\ exc # "AttributeError") => warned
    /\ Twin.w.store = pages /\ Twin.w.calls = calls
    /\ Twin.exc = exc /\ Twin.ok = ok /\ Twin.msg = msg /\ Twin.target = target
    /\ (exc = "" /\ target # None) => (ok /\ msg = MSG_UPDATED)
    /\ (ok /\ WritableFields # {}) =>
         /\ \E i \in UpdateCalls :
              ~calls[i].failed /\ DOMAIN calls[i].properties = WritableFields
         /\ (PROP_STATUS \in WritableFields /\ IsStr(Get(Payload, K_Status, None))) =>
              \A k \in TargetPages : pages[k].status = <<Get(Payload, K_Status, None).s>>

\* A Status-and-Guest update on a people-typed Guest succeeded: warned, the
\* status written, the guest as it was.
C3_Witness ==
  /\ GuestToPeople /\ ok /\ warned
  /\ PROP_STATUS \in WritableFields
  /\ \E k \in TargetPages :
       /\ pages[k].status = <<V_Nagrany>> /\ pages0[k].status # <<V_Nagrany>>
       /\ pages[k].guest = pages0[k].guest /\ pages[k].guest # <<>>

\* C4 as stated: every command that reaches apply_command, pasted or from a
\* verified link, ends with a returned (success, message) pair shown as
\* success or error; no exception escapes the interaction.
C4_DispatchReturns ==
  outcome # "none" =>
    /\ outcome = "returned" /\ exc = ""
    /\ msg # NO_MSG
    /\ shown \in {"success", "error"}

\* The command names an operation that resolves a target, and was dispatched.
IsTargeting ==
  /\ IsDict(cmd)
  /\ Get(cmd, K_op, None) \in {JStr(OP_update_properties), JStr(OP_add_checklist)}
  /\ outcome # "none"

\* Its label, cmd.get("page"), when that is a text (<<>> otherwise).
Label == IF IsStr(Get(cmd, K_page, None)) THEN Get(cmd, K_page, None).s ELSE <<>>

\* The components of a label as the specification reads it: "#", the digits
\* of the number, and after a space the title prefix; either may be missing.
\* NumberEnd is the index of the last digit (1: no digit follows the "#").
HasNumber == Len(Label) >= 2 /\ Label[1] = "#" /\ IsDigit(Label[2])

NumberEnd ==
  IF HasNumber
  THEN CHOOSE e \in 2..Len(Label) :
         /\ \A i \in 2..e : IsDigit(Label[i])
         /\ (e = Len(Label) \/ ~IsDigit(Label[e + 1]))
  ELSE 0

LabelNumber == DigitsValue(SubSeq(Label, 2, NumberEnd))

\* "#N T": the number, one space, a title prefix that is not empty.
NumberAndTitle ==
  HasNumber /\ Len(Label) >= NumberEnd + 2 /\ Label[NumberEnd + 1] = " "

\* "#N": the number and nothing after it.
NumberOnly == HasNumber /\ Len(Label) = NumberEnd

\* A text that does not start with "#": a title prefix and no number.
TitleOnly == Len(Label) >= 1 /\ Label[1] # "#"

LabelTitle ==
  IF NumberAndTitle THEN SubSeq(Label, NumberEnd + 2, Len(Label))
  ELSE IF TitleOnly THEN Label
  ELSE <<>>

\* The record p passes the tests of the components the label has.
MatchesLabel(p) ==
  /\ HasNumber => p.number = <<LabelNumber>>
  /\ LabelTitle # <<>> => StartsWith(p.title, LabelTitle)

Matching == {k \in 1..Len(pages0) : MatchesLabel(pages0[k])}

\* The records, before the interaction, whose id the command resolved to.
Resolved == {k \in 1..Len(pages0) : target # None /\ IsStr(target) /\ pages0[k].id = target.s}

\* The command names its target by an id that no record has, or names none.
NoSuchRecord ==
  /\ ~Truthy(Get(cmd, K_page, None))
  /\ \A k \in 1..Len(pages0) : JStr(pages0[k].id) # Get(cmd, K_page_id, None)

\* The command ended with a returned failure and wrote nothing.
FailedCleanly ==
  /\ outcome = "returned" /\ ~ok
  /\ UpdateCalls = {} /\ AppendCalls = {}

\* C5 as stated: for a label "#N T" the resolved record is the unique record
\* with number N whose title starts with T, no record failing either test is
\* resolved, and when no record matches, or the target names no record, the
\* command returns failure without an update or append call.
C5_UniqueMatch ==
  /\ (IsTargeting /\ NumberAndTitle) =>
       /\ target # None => (Resolved # {} /\ Resolved = Matching /\ Cardinality(Matching) = 1)
       /\ Matching = {} => FailedCleanly
  /\ (IsTargeting /\ NoSuchRecord) => FailedCleanly

\* C6 as stated: a label with no number resolves, among records of any
\* number, only records whose title starts with the label's text, and a label
\* with no title resolves, among records of any title, only records with the
\* label's number; where a record passes and the command returned, one is
\* resolved.
C6_ComponentsOptional ==
  (IsTargeting /\ (TitleOnly \/ NumberOnly)) =>
    /\ target # None => (Resolved # {} /\ Resolved \subseteq Matching)
    /\ (Matching # {} /\ outcome = "returned") => target # None

\* C7: decoding the token that encoding a command produced (json.dumps,
\* URL-safe base64, padding stripped; padding put back on decode) gives a
\* command equal to it, and decode_cmd lets no exception out: for a token
\* whose decoding fails it returns None.
C7_RoundTrip ==
  pc = "decoded" =>
    /\ exc = "" /\ decoded.exc = ""
    /\ tab = "encode" => decoded = Return(built)
    /\ decode_cmd_try(qp.cmd[1]).exc # "" => decoded = Return(None)

\* A command whose texts need escaping came back equal from a token whose
\* padding had been stripped.
C7_Witness ==
  /\ pc = "decoded" /\ tab = "encode"
  /\ decoded = Return(built)
  /\ Len(qp.cmd[1]) % 4 # 0
  /\ \E t \in Texts :
       /\ Len(t) = 2 /\ t[1] = "\"" /\ t[2] = "U+0142"
       /\ built = UpdateCmd(ByLabel(t), JObj(<<JMember(K_Guest, JStr(t))>>))

\* The link was built from an update_properties command with a label target
\* and a Status value.
BuiltStatusLink ==
  /\ tab = "link" /\ IsDict(built)
  /\ Get(built, K_op, None) = JStr(OP_update_properties)
  /\ IsStr(Get(built, K_page, None)) /\ Truthy(Get(built, K_page, None))
  /\ IsDict(Get(built, K_props, None))
  /\ IsStr(Get(Get(built, K_props, None), K_Status, None))

\* No call of the interaction failed at the collaborator.
NoFailedCall == \A i \in 1..Len(calls) : ~calls[i].failed

\* C8: a link built from an update_properties command with a label target
\* and a Status value passes verification and decodes to the command it was
\* built from; executed against a workspace that holds a record matching the
\* label, with a collaborator that answers, it ends with success, the status
\* of the resolved record, which matches the label, set to the commanded
\* value, and every other record as it was.
C8_EndToEnd ==
  BuiltStatusLink =>
    /\ pc \in {"preview", "done"}
    /\ Verified(qp) /\ decoded = Return(built)
    /\ pc = "preview" => (shown = "Podglad polecenia" /\ outcome = "none")
    /\ pc = "done" => (outcome # "none" /\ cmd = built)
    /\ (pc = "done" /\ Matching # {} /\ NoFailedCall) =>
         /\ outcome = "returned" /\ ok /\ msg = MSG_UPDATED /\ shown = "success"
         /\ Resolved # {} /\ Resolved \subseteq Matching
         /\ \A k \in 1..Len(pages) :
              IF k \in Resolved
              THEN pages[k] = [pages0[k] EXCEPT
                                 !.status = <<Get(Get(built, K_props, None), K_Status, None).s>>]
              ELSE pages[k] = pages0[k]

\* The link for the status of "#3 Intro" was executed: record #3, "Intro
\* Episode", went from "Szkic" to "Nagrany".
C8_Witness ==
  /\ BuiltStatusLink /\ pc = "done" /\ ok
  /\ Label = L_3_Intro
  /\ \E k \in Resolved :
       /\ pages0[k].number = <<3>> /\ pages0[k].title = T_Intro_Episode
       /\ pages0[k].status = <<V_Szkic>> /\ pages[k].status = <<V_Nagrany>>

\* The command of the interaction is an add_checklist command; its items.
IsChecklistCmd == IsDict(cmd) /\ Get(cmd, K_op, None) = JStr(OP_add_checklist)

ItemsOf == Get(cmd, K_items, JArr(<<>>))

\* The blocks a checklist of the items xs is rendered as.
HeadingBlock == [type |-> "heading_3", text |-> JStr(CHECKLIST_HEADING), checked |-> FALSE]

TodoBlocksOf(xs) == [i \in 1..Len(xs) |-> [type |-> "to_do", text |-> xs[i], checked |-> FALSE]]

\* The append calls of the interaction, in the order they were made.
Appended == SelectSeq(calls, LAMBDA c : c.api = "blocks.children.append")

\* C9: a successful add_checklist with items i1..in, n >= 1, appends to the
\* target record one heading block and then n to-do blocks with the texts
\* i1..in in that order, each unchecked, and nothing else: the record's
\* blocks are the old ones, the heading, the to-dos; the heading goes out in
\* the first append call and the to-dos in the second; no other record and no
\* field changes.
C9_HeadingThenTodos ==
  (IsChecklistCmd /\ outcome # "none" /\ ok
     /\ ItemsOf.t = "list" /\ \A i \in 1..Len(ItemsOf.k) : IsStr(ItemsOf.k[i])) =>
    /\ Len(ItemsOf.k) >= 1
    /\ Resolved # {}
    /\ \A k \in 1..Len(pages) :
         IF k \in Resolved
         THEN pages[k] = [pages0[k] EXCEPT
                            !.children = @ \o <<HeadingBlock>> \o TodoBlocksOf(ItemsOf.k)]
         ELSE pages[k] = pages0[k]
    /\ Len(Appended) = 2
    /\ Appended[1].children = <<HeadingBlock>> /\ Appended[1].page_id = target
    /\ Appended[2].children = TodoBlocksOf(ItemsOf.k) /\ Appended[2].page_id = target
    /\ UpdateCalls = {}

\* A checklist of two items was added to a record that already had a block.
C9_Witness ==
  /\ IsChecklistCmd /\ ok
  /\ ItemsOf = JArr(<<JStr(<<"a">>), JStr(<<"b">>)>>)
  /\ \E k \in Resolved :
       /\ pages0[k].children # <<>>
       /\ Len(pages[k].children) = Len(pages0[k].children) + 3

\* An add_checklist command whose items are empty or absent was dispatched.
EmptyChecklist == IsChecklistCmd /\ outcome # "none" /\ ItemsOf = JArr(<<>>)

\* C10 as stated: for every target, an add_checklist whose items are empty or
\* absent returns failure with the empty-payload message and makes no append
\* call.
C10_AlwaysEmptyPayload ==
  EmptyChecklist =>
    /\ outcome = "returned" /\ ~ok
    /\ msg = MSG_NO_ITEMS
    /\ AppendCalls = {}

\* C10, amended: for every target, an add_checklist whose items are empty or
\* absent makes no append call, changes nothing and never returns success;
\* the target is resolved first, so the failure it returns carries the
\* empty-payload message exactly when the target resolved to an id, and the
\* target-not-found message when it did not.
C10_EmptyChecklist ==
  EmptyChecklist =>
    /\ AppendCalls = {} /\ UpdateCalls = {} /\ pages = pages0
    /\ ~ok
    /\ target # None => (outcome = "returned" /\ msg = MSG_NO_ITEMS)
    /\ (outcome = "returned" /\ target = None) => msg = MSG_NOT_FOUND

\* An empty checklist for a label that matches no record was answered with
\* the target-not-found message.
C10_Witness ==
  /\ EmptyChecklist /\ outcome = "returned"
  /\ Label = L_9_Nope /\ pages0 # <<>>
  /\ msg = MSG_NOT_FOUND

\* The op of the command, cmd.get("op"), and whether it is one of the two
\* supported operations.
OpOf == Get(cmd, K_op, None)

UnknownOp ==
  /\ IsDict(cmd) /\ outcome # "none"
  /\ OpOf \notin {JStr(OP_update_properties), JStr(OP_add_checklist)}

\* The tag of the op as a message shows it: the text of a text, the printed
\* form of any other value (None for a command without op).
OpTag == IF IsStr(OpOf) THEN OpOf.s ELSE PyRepr(OpOf)

\* C11: every command whose op is not update_properties or add_checklist is
\* answered by a returned failure whose message is the unknown-operation text
\* followed by the op's tag, shown as an error, with no collaborator call
\* (no query, no update, no append) and the workspace as it was.
C11_UnknownOp ==
  UnknownOp =>
    /\ outcome = "returned" /\ exc = "" /\ ~ok
    /\ msg.text = "Nieznana operacja: " /\ msg.arg = OpTag /\ OpTag # <<>>
    /\ shown = "error"
    /\ calls = <<>> /\ pages = pages0
    /\ target = None /\ ~warned

\* A pasted command with op "frobnicate", a label that matches a record, a
\* payload and items was refused with its op in the message.
C11_Witness ==
  /\ UnknownOp /\ tab = "local" /\ outcome = "returned" /\ ~ok
  /\ OpOf = JStr(OP_frobnicate) /\ msg.arg = OP_frobnicate
  /\ Label = L_3_Intro /\ Matching # {}
  /\ HasKey(cmd, K_props) /\ HasKey(cmd, K_items)
  /\ calls = <<>>

====
